---- MODULE Spec2Model ----
(***************************************************************************)
(* nas-media-index: the catalog synchronizer (src/scan.py, main) run by    *)
(* up to two overlapping invocations against one PostgreSQL catalog, and   *)
(* the Range parsing of the media endpoint (src/api.py, parse_range).      *)
(***************************************************************************)
EXTENDS Integers, Sequences, FiniteSets, TLC

VARIABLES
    env,        \* the .env file: SCAN_ROOT and ROOT_NAME of every invocation
    fs,         \* the volume: path -> [exists, size, mtime] (mtime as st_mtime ticks)
    fsOps,      \* number of changes made to the volume so far
    files,      \* durable rows of table files
    scan_runs,  \* durable rows of table scan_runs
    run_seq,    \* last value handed out by the scan_runs id sequence
    scan,       \* per invocation: the locals of main() and its position
    tx,         \* per invocation: the uncommitted writes of its connection
    hist,       \* per invocation: history of the current run (not program state)
    synced,     \* history: scan roots whose tree the catalog is known to mirror
    range_header, file_size, byte_range, resp,  \* one Range request of media()
    links,      \* the volume's symbolic links: path -> the path it resolves to
    media,      \* the other locals of media() and its position
    streams,    \* the iter_file_range generators handed to StreamingResponse
    handles     \* the open file handles of the API process

scanVars == <<env, fs, fsOps, files, scan_runs, run_seq, scan, tx, hist, synced>>
rangeVars == <<range_header, file_size, byte_range, resp>>
mediaVars == <<links, media, streams, handles>>
apiVars == <<range_header, file_size, byte_range, resp, links, media, streams, handles>>
vars == <<env, fs, fsOps, files, scan_runs, run_seq, scan, tx, hist, synced,
          range_header, file_size, byte_range, resp, links, media, streams, handles>>

----------------------------------------------------------------------------
(* Bounds of the model *)

\* files in the subdirectory of the volume (next to one top-level file)
NumSub == 2
\* synchronizer invocations that get a run id
MaxRuns == 2
\* changes made to the volume (create, delete, resize, touch)
MaxFsOps == 1
\* files per committed batch; scan.py:126 uses 2000, the model scales it down
BatchSize == 2
\* rows of files whose sha256 another writer has populated
MaxHashed == 1

Procs == {1, 2}

----------------------------------------------------------------------------
(* The volume and the walk *)

\* A path is the sequence of its components below the volume: <<1>> is the
\* top-level file, <<0, i>> is file i of the subdirectory 0.
Paths == {<<1>>} \cup {<<0, i>> : i \in 1..NumSub}

\* Invocation settings: SCAN_ROOT and ROOT_NAME
Configs == {[scan_root |-> <<>>, root_name |-> "Vol"],
            [scan_root |-> <<0>>, root_name |-> "Sub"]}
ScanRoots == {c.scan_root : c \in Configs}

Gone == [exists |-> FALSE, size |-> 0, mtime |-> 0]
\* what stat can report of a path: as first written, touched, or rewritten
\* with another size within the same stored time unit
Written == [exists |-> TRUE, size |-> 1, mtime |-> 3]
FileStates == {Gone, Written,
               [exists |-> TRUE, size |-> 1, mtime |-> 4],
               [exists |-> TRUE, size |-> 2, mtime |-> 2]}

\* st_mtime is finer than the stored timestamp: two ticks per stored unit
dt_from_epoch(epoch_seconds) == epoch_seconds \div 2

\* Order in which os.walk(root) reaches the candidate files: the files of a
\* directory before those of its subdirectories
WalkList(root) ==
    IF root = <<>>
    THEN <<<<1>>>> \o [i \in 1..NumSub |-> <<0, i>>]
    ELSE [i \in 1..NumSub |-> <<0, i>>]

relative_to(p, root) == SubSeq(p, Len(root) + 1, Len(p))

Min(S) == CHOOSE x \in S : \A y \in S : x <= y
Max(S) == CHOOSE x \in S : \A y \in S : x >= y

\* iter_files: index in WalkList of the next entry whose stat succeeds, 0 if none
NextEntry(root, pos) ==
    LET wl == WalkList(root)
        cand == {i \in (pos + 1)..Len(wl) : fs[wl[i]].exists}
    IN IF cand = {} THEN 0 ELSE Min(cand)

----------------------------------------------------------------------------
(* The catalog and its transactions *)

NoItem == [abs_path |-> <<>>, rel_path |-> <<>>, size |-> 0, mtime_epoch |-> 0]
NoRow == [found |-> FALSE, size_bytes |-> 0, mtime |-> 0]
EmptyTx == [runs |-> <<>>, files |-> <<>>]

RECURSIVE ApplyFiles(_, _)
ApplyFiles(rows, writes) ==
    IF writes = <<>> THEN rows
    ELSE LET w == Head(writes)
             next == IF w.kind = "insert"
                     THEN rows \cup {w.row}
                     ELSE {r \in rows : r.id # w.row.id} \cup {w.row}
         IN ApplyFiles(next, Tail(writes))

RECURSIVE ApplyRuns(_, _)
ApplyRuns(rows, writes) ==
    IF writes = <<>> THEN rows
    ELSE ApplyRuns({r \in rows : r.id # Head(writes).id} \cup {Head(writes)},
                   Tail(writes))

\* conn.commit(): the files rows after the connection's pending writes are applied
CommitFiles_skip(rows, writes) == rows
CommitFiles_prune(rows, writes) == ApplyFiles({}, writes)
CommitFiles(rows, writes) == ApplyFiles(rows, writes)

\* the except handler's conn.commit()
HandlerCommit_skip(rows, writes) == rows
HandlerCommit(rows, writes) == ApplyFiles(rows, writes)

\* conn.close() in finally, or the server dropping a dead connection: the
\* uncommitted writes are rolled back
CloseConn_commits(rows, writes) == ApplyFiles(rows, writes)
CloseConn(rows, writes) == rows

\* rows of files an invocation's statements see: the committed rows overlaid
\* with its own pending writes (READ COMMITTED)
Visible(p) == ApplyFiles(files, tx[p].files)

\* id column of files: a fresh value
NewFileId ==
    LET pending == UNION {{tx[q].files[i].row.id : i \in DOMAIN tx[q].files} :
                          q \in Procs}
    IN Max({r.id : r \in files} \cup pending \cup {0}) + 1

\* SELECT size_bytes, mtime FROM files WHERE abs_path = %s; cur.fetchone()
select_existing(p, abs_path) ==
    LET hit == {r \in Visible(p) : r.abs_path = abs_path}
    IN IF hit = {} THEN NoRow
       ELSE LET r == CHOOSE r \in hit : TRUE
            IN [found |-> TRUE, size_bytes |-> r.size_bytes, mtime |-> r.mtime]

\* the comparison that counts a file as changed
IsChanged_raw(row, size, mtime_epoch) ==
    row.size_bytes # size \/ row.mtime # mtime_epoch
IsChanged(row, size, mtime_epoch) ==
    row.size_bytes # size \/ row.mtime # dt_from_epoch(mtime_epoch)

Classify_eager(row, size, mtime_epoch) ==
    IF ~row.found THEN "New" ELSE "Changed"
Classify(row, size, mtime_epoch) ==
    IF ~row.found THEN "New"
    ELSE IF IsChanged(row, size, mtime_epoch) THEN "Changed"
    ELSE "Unchanged"

\* ON CONFLICT (abs_path): the rows the arbiter index finds for the new tuple
ConflictRows_none(rows, abs_path) == {}
ConflictRows(rows, abs_path) == {r \in rows : r.abs_path = abs_path}

\* DO UPDATE SET ...: the conflicting row after the update
UpdatedRow_stale(old, root_name, item, run_id) ==
    [old EXCEPT !.root = root_name, !.rel_path = item.rel_path,
                !.size_bytes = item.size,
                !.mtime = dt_from_epoch(item.mtime_epoch)]
UpdatedRow(old, root_name, item, run_id) ==
    [old EXCEPT !.root = root_name, !.rel_path = item.rel_path,
                !.size_bytes = item.size,
                !.mtime = dt_from_epoch(item.mtime_epoch),
                !.last_seen_run_id = run_id]

\* INSERT INTO files (...) VALUES (...): the proposed row; sha256 is not in
\* the column list and stays NULL
InsertedRow(root_name, item, run_id) ==
    [id |-> NewFileId, root |-> root_name, rel_path |-> item.rel_path,
     abs_path |-> item.abs_path, size_bytes |-> item.size,
     mtime |-> dt_from_epoch(item.mtime_epoch), sha256 |-> "NULL",
     last_seen_run_id |-> run_id]

\* the write the upsert statement adds to the transaction
UpsertWrite(p, root_name, item, run_id) ==
    LET hit == ConflictRows(Visible(p), item.abs_path)
    IN IF hit = {}
       THEN [kind |-> "insert", row |-> InsertedRow(root_name, item, run_id)]
       ELSE [kind |-> "update",
             row |-> UpdatedRow(CHOOSE r \in hit : TRUE, root_name, item, run_id)]

\* The unique index on abs_path makes the upsert wait while another open
\* transaction holds an uncommitted write of the same key
UpsertBlocked(p, abs_path) ==
    \E q \in Procs \ {p} : \E i \in DOMAIN tx[q].files :
        tx[q].files[i].row.abs_path = abs_path

\* if files_seen % 2000 == 0
BatchDue_late(files_seen) == files_seen % (BatchSize + 1) = 0
BatchDue(files_seen) == files_seen % BatchSize = 0

----------------------------------------------------------------------------
(* The synchronizer: main() of scan.py, one action per statement that talks *)
(* to the database or the filesystem                                        *)

Active(q) == scan[q].pc \notin {"idle", "exited"}
OthersActive(p) == \E q \in Procs \ {p} : Active(q)

IdleScan == [pc |-> "idle", status |-> -1, cfg |-> [scan_root |-> <<>>, root_name |-> ""],
             run_id |-> 0, files_seen |-> 0, files_changed |-> 0, pos |-> 0,
             item |-> NoItem, row |-> NoRow]
NoHist == [walked |-> <<>>, executed |-> <<>>, durable |-> <<>>, rescued |-> 0,
           finalized |-> FALSE,
           solo |-> FALSE, quiet |-> FALSE, repeat |-> FALSE]

\* what is kept of an invocation after its process has gone
Exited(p, status) == [IdleScan EXCEPT !.pc = "exited", !.status = status,
                                      !.run_id = scan[p].run_id]
Ended(h) == [NoHist EXCEPT !.executed = h.executed, !.durable = h.durable,
                           !.rescued = h.rescued, !.finalized = h.finalized]

\* history bookkeeping of a commit: the pending upserts become durable
Durable(p) == [hist EXCEPT ![p].durable =
                  @ \o [i \in DOMAIN tx[p].files |-> tx[p].files[i].row.abs_path]]

\* statements between try: (line 95) and return 0 (line 155)
TryPcs == {"walk", "select", "upsert", "batch", "final_commit", "update_run",
           "finish_commit", "print"}

InitScan ==
    /\ env \in Configs
    /\ fs = [p \in Paths |-> Written]
    /\ fsOps = 0
    /\ files = {}
    /\ scan_runs = {}
    /\ run_seq = 0
    /\ scan = [p \in Procs |-> IdleScan]
    /\ tx = [p \in Procs |-> EmptyTx]
    /\ hist = [p \in Procs |-> NoHist]
    /\ synced = {}

\* lines 42-72: configuration, connect, INSERT INTO scan_runs ... RETURNING id
InsertRun(p) ==
    /\ scan[p].pc \in {"idle", "exited"}
    /\ \A q \in Procs : q < p => Active(q)
    /\ run_seq < MaxRuns
    /\ run_seq' = run_seq + 1
    /\ scan' = [scan EXCEPT ![p] = [IdleScan EXCEPT !.pc = "commit_run",
                                       !.cfg = env, !.run_id = run_seq + 1]]
    /\ tx' = [tx EXCEPT ![p].runs =
                 <<[id |-> run_seq + 1, root |-> env.root_name, finished |-> FALSE,
                    files_seen |-> 0, files_changed |-> 0]>>]
    /\ hist' = [q \in Procs |->
                 IF q = p
                 THEN [NoHist EXCEPT !.solo = ~OthersActive(p), !.quiet = TRUE,
                          !.repeat = ~OthersActive(p) /\ env.scan_root \in synced]
                 ELSE [hist[q] EXCEPT !.solo = FALSE, !.repeat = FALSE]]
    /\ synced' = IF OthersActive(p) THEN {} ELSE synced
    /\ UNCHANGED <<env, fs, fsOps, files, scan_runs>>

\* line 73: conn.commit() of the scan run row
CommitRun(p) ==
    /\ scan[p].pc = "commit_run"
    /\ scan_runs' = ApplyRuns(scan_runs, tx[p].runs)
    /\ tx' = [tx EXCEPT ![p] = EmptyTx]
    /\ scan' = [scan EXCEPT ![p].pc = "walk"]
    /\ UNCHANGED <<env, fs, fsOps, files, run_seq, hist, synced>>

\* lines 106-108 with iter_files (18-39): the next file of the walk, or its end
NextFile(p) ==
    /\ scan[p].pc = "walk"
    /\ LET root == scan[p].cfg.scan_root
           i == NextEntry(root, scan[p].pos)
           path == WalkList(root)[i]
           item == [abs_path |-> path, rel_path |-> relative_to(path, root),
                    size |-> fs[path].size, mtime_epoch |-> fs[path].mtime]
       IN IF i = 0
          THEN /\ scan' = [scan EXCEPT ![p].pc = "final_commit"]
               /\ hist' = hist
          ELSE /\ scan' = [scan EXCEPT ![p].pc = "select", ![p].pos = i,
                              ![p].item = item,
                              ![p].files_seen = @ + 1]
               /\ hist' = [hist EXCEPT ![p].walked =
                              Append(@, [item |-> item, row |-> NoRow,
                                         class |-> "none"])]
    /\ UNCHANGED <<env, fs, fsOps, files, scan_runs, run_seq, tx, synced>>

\* lines 111-118: look the path up and count it when new or changed
SelectExisting(p) ==
    /\ scan[p].pc = "select"
    /\ LET row == select_existing(p, scan[p].item.abs_path)
           class == Classify(row, scan[p].item.size, scan[p].item.mtime_epoch)
       IN /\ scan' = [scan EXCEPT ![p].pc = "upsert", ![p].row = row,
                         ![p].files_changed =
                             IF class = "Unchanged" THEN @ ELSE @ + 1]
          /\ hist' = [hist EXCEPT ![p].walked[Len(hist[p].walked)] =
                                      [@ EXCEPT !.row = row, !.class = class]]
    /\ UNCHANGED <<env, fs, fsOps, files, scan_runs, run_seq, tx, synced>>

\* lines 120-123: the upsert; it waits while another run holds the key
Upsert(p) ==
    /\ scan[p].pc = "upsert"
    /\ ~UpsertBlocked(p, scan[p].item.abs_path)
    /\ tx' = [tx EXCEPT ![p].files =
                 Append(@, UpsertWrite(p, scan[p].cfg.root_name, scan[p].item,
                                       scan[p].run_id))]
    /\ scan' = [scan EXCEPT ![p].pc = "batch"]
    /\ hist' = [hist EXCEPT ![p].executed = Append(@, scan[p].item.abs_path)]
    /\ UNCHANGED <<env, fs, fsOps, files, scan_runs, run_seq, synced>>

\* lines 126-128: commit when a batch is full (item and row are dead after it)
BatchCheck(p) ==
    /\ scan[p].pc = "batch"
    /\ scan' = [scan EXCEPT ![p].pc = "walk", ![p].item = NoItem, ![p].row = NoRow]
    /\ IF BatchDue(scan[p].files_seen)
       THEN /\ files' = CommitFiles(files, tx[p].files)
            /\ tx' = [tx EXCEPT ![p] = EmptyTx]
            /\ hist' = Durable(p)
       ELSE UNCHANGED <<files, tx, hist>>
    /\ UNCHANGED <<env, fs, fsOps, scan_runs, run_seq, synced>>

\* line 130: the commit after the loop
FinalCommit(p) ==
    /\ scan[p].pc = "final_commit"
    /\ files' = CommitFiles(files, tx[p].files)
    /\ tx' = [tx EXCEPT ![p] = EmptyTx]
    /\ hist' = Durable(p)
    /\ scan' = [scan EXCEPT ![p].pc = "update_run"]
    /\ UNCHANGED <<env, fs, fsOps, scan_runs, run_seq, synced>>

\* lines 135-145: UPDATE scan_runs SET finished_at, files_seen, files_changed
FinishRun(p) ==
    /\ scan[p].pc = "update_run"
    /\ tx' = [tx EXCEPT ![p].runs =
                 [i \in 1..Cardinality({r \in scan_runs : r.id = scan[p].run_id}) |->
                    [(CHOOSE r \in scan_runs : r.id = scan[p].run_id) EXCEPT
                        !.finished = TRUE,
                        !.files_seen = scan[p].files_seen,
                        !.files_changed = scan[p].files_changed]]]
    /\ scan' = [scan EXCEPT ![p].pc = "finish_commit"]
    /\ UNCHANGED <<env, fs, fsOps, files, scan_runs, run_seq, hist, synced>>

\* line 146: the commit of the finished run
CommitFinish(p) ==
    /\ scan[p].pc = "finish_commit"
    /\ scan_runs' = ApplyRuns(scan_runs, tx[p].runs)
    /\ files' = CommitFiles(files, tx[p].files)
    /\ tx' = [tx EXCEPT ![p] = EmptyTx]
    /\ scan' = [scan EXCEPT ![p].pc = "print"]
    /\ hist' = [hist EXCEPT ![p].finalized = TRUE]
    /\ UNCHANGED <<env, fs, fsOps, run_seq, synced>>

\* lines 148-155 and 162-163: the summary, return 0, conn.close()
ReturnOk(p) ==
    /\ scan[p].pc = "print"
    /\ scan' = [scan EXCEPT ![p] = Exited(p, 0)]
    /\ files' = CloseConn(files, tx[p].files)
    /\ tx' = [tx EXCEPT ![p] = EmptyTx]
    /\ synced' = IF hist[p].solo /\ hist[p].quiet
                 THEN synced \cup {scan[p].cfg.scan_root} ELSE synced
    /\ hist' = [hist EXCEPT ![p] = Ended(@)]
    /\ UNCHANGED <<env, fs, fsOps, scan_runs, run_seq>>

\* KeyboardInterrupt: inside the try it reaches the handler of line 157; before
\* line 95 nothing catches it and the interpreter dies of SIGINT, which the
\* caller sees as 130 as well
Interrupt(p) ==
    /\ Active(p)
    /\ scan[p].pc # "except"
    /\ IF scan[p].pc \in TryPcs
       THEN /\ scan' = [scan EXCEPT ![p].pc = "except"]
            /\ UNCHANGED <<files, tx>>
       ELSE /\ scan' = [scan EXCEPT ![p] = Exited(p, 130)]
            /\ files' = CloseConn(files, tx[p].files)
            /\ tx' = [tx EXCEPT ![p] = EmptyTx]
    /\ UNCHANGED <<env, fs, fsOps, scan_runs, run_seq, hist, synced>>

\* lines 157-163: commit what is pending, return 130, conn.close()
ExceptCommit(p) ==
    /\ scan[p].pc = "except"
    /\ files' = HandlerCommit(files, tx[p].files)
    /\ scan_runs' = ApplyRuns(scan_runs, tx[p].runs)
    /\ tx' = [tx EXCEPT ![p] = EmptyTx]
    /\ hist' = [hist EXCEPT ![p] = Ended([Durable(p)[p] EXCEPT
                                            !.rescued = Len(tx[p].files)])]
    /\ scan' = [scan EXCEPT ![p] = Exited(p, 130)]
    /\ UNCHANGED <<env, fs, fsOps, run_seq, synced>>

\* the process is killed (SIGKILL, power loss): the server rolls back
Kill(p) ==
    /\ Active(p)
    /\ scan' = [scan EXCEPT ![p] = Exited(p, 137)]
    /\ files' = CloseConn(files, tx[p].files)
    /\ tx' = [tx EXCEPT ![p] = EmptyTx]
    /\ hist' = [hist EXCEPT ![p] = Ended(@)]
    /\ UNCHANGED <<env, fs, fsOps, scan_runs, run_seq, synced>>

\* a statement or commit raises psycopg.Error (connection lost, lock_timeout
\* of line 61): no handler matches, finally closes the connection, exit 1
DbPcs == {"commit_run", "select", "upsert", "final_commit", "update_run",
          "finish_commit", "except"}
DbError(p) ==
    /\ \/ scan[p].pc \in DbPcs
       \/ scan[p].pc = "batch" /\ BatchDue(scan[p].files_seen)
    /\ scan' = [scan EXCEPT ![p] = Exited(p, 1)]
    /\ files' = CloseConn(files, tx[p].files)
    /\ tx' = [tx EXCEPT ![p] = EmptyTx]
    /\ hist' = [hist EXCEPT ![p] = Ended(@)]
    /\ UNCHANGED <<env, fs, fsOps, scan_runs, run_seq, synced>>

\* somebody creates, deletes, resizes or touches a file of the volume
FsChange(path, st) ==
    /\ fsOps < MaxFsOps
    /\ st # fs[path]
    /\ fs' = [fs EXCEPT ![path] = st]
    /\ fsOps' = fsOps + 1
    /\ hist' = [q \in Procs |-> [hist[q] EXCEPT !.quiet = FALSE, !.repeat = FALSE]]
    /\ synced' = {}
    /\ UNCHANGED <<env, files, scan_runs, run_seq, scan, tx>>

\* The sha256 column is never written by scan.py; api.py reads it (lines 135,
\* 261-264) as populated by another writer. Digest stands for the SHA-256 of a
\* file's content, which the model tells apart by its size.
Digest(st) == <<"sha_a", "sha_b">>[st.size]

\* between two runs that writer stores the digest of a file in the file's row,
\* when the row describes the file as it is on disk
HashFile(path) ==
    /\ \A p \in Procs : ~Active(p)
    /\ Cardinality({r \in files : r.sha256 # "NULL"}) < MaxHashed
    /\ fs[path].exists
    /\ \E r \in files :
          /\ r.abs_path = path
          /\ r.sha256 = "NULL"
          /\ r.size_bytes = fs[path].size
          /\ r.mtime = dt_from_epoch(fs[path].mtime)
          /\ files' = (files \ {r}) \cup {[r EXCEPT !.sha256 = Digest(fs[path])]}
    /\ UNCHANGED <<env, fs, fsOps, scan_runs, run_seq, scan, tx, hist, synced>>

----------------------------------------------------------------------------
(* Range parsing: parse_range of api.py, on strings as character sequences  *)

\* longest spec after "bytes=" and largest file size that are tried
MaxSpecLen == 4
MaxFileSize == 3

BytesEq == <<"b", "y", "t", "e", "s", "=">>
Alphabet == {"0", "1", "2", "-", ",", " ", "x"}
Digits == <<"0", "1", "2", "3", "4", "5", "6", "7", "8", "9">>

Strings(n) == UNION {[1..k -> Alphabet] : k \in 0..n}
Headers == {pre \o body : pre \in {BytesEq, <<"b", "y", "t", "e", "s">>, <<>>},
                          body \in Strings(MaxSpecLen)}

\* str.startswith
StartsWith(s, pre) == Len(s) >= Len(pre) /\ SubSeq(s, 1, Len(pre)) = pre

\* str.strip()
RECURSIVE Strip(_)
Strip(s) ==
    IF s = <<>> THEN s
    ELSE IF Head(s) = " " THEN Strip(Tail(s))
    ELSE IF s[Len(s)] = " " THEN Strip(SubSeq(s, 1, Len(s) - 1))
    ELSE s

Contains(s, ch) == \E i \in DOMAIN s : s[i] = ch
IndexOf(s, ch) == Min({i \in DOMAIN s : s[i] = ch})

DigitValue(ch) == (CHOOSE i \in DOMAIN Digits : Digits[i] = ch) - 1
IsDigit(ch) == \E i \in DOMAIN Digits : Digits[i] = ch

RECURSIVE DecValue(_)
DecValue(s) ==
    IF s = <<>> THEN 0
    ELSE 10 * DecValue(SubSeq(s, 1, Len(s) - 1)) + DigitValue(s[Len(s)])

\* int(text): surrounding whitespace and one sign are accepted; anything but
\* digits after that is a ValueError
PyInt(text) ==
    LET t == Strip(text)
        signed == t # <<>> /\ Head(t) \in {"-", "+"}
        body == IF signed THEN Tail(t) ELSE t
    IN IF body = <<>> \/ \E i \in DOMAIN body : ~IsDigit(body[i])
       THEN [ok |-> FALSE, val |-> 0]
       ELSE [ok |-> TRUE,
             val |-> IF signed /\ Head(t) = "-" THEN 0 - DecValue(body)
                     ELSE DecValue(body)]

None == [kind |-> "None", start |-> 0, end |-> 0]
Raised == [kind |-> "raise", start |-> 0, end |-> 0]
Unset == [kind |-> "unset", start |-> 0, end |-> 0]
Interval(start, end) == [kind |-> "range", start |-> start, end |-> end]

\* lines 48-53: the suffix form
SuffixRange(suffix, size) ==
    IF suffix <= 0 THEN None
    ELSE Interval(IF size - suffix > 0 THEN size - suffix ELSE 0, size - 1)

\* lines 63-69: validation and clamping of start-end and start-
CheckedRange_unclamped(start, end, size) ==
    IF start < 0 \/ end < start THEN None
    ELSE IF start >= size THEN None
    ELSE Interval(start, end)
CheckedRange(start, end, size) ==
    IF start < 0 \/ end < start THEN None
    ELSE IF start >= size THEN None
    ELSE Interval(start, IF end < size - 1 THEN end ELSE size - 1)

parse_range(header, size) ==
    IF header = <<>> \/ ~StartsWith(header, BytesEq) THEN None
    ELSE LET spec == Strip(SubSeq(header, Len(BytesEq) + 1, Len(header)))
         IN IF Contains(spec, ",") THEN None
            \* line 43: unpacking a one-element split raises ValueError
            \* outside the try block
            ELSE IF ~Contains(spec, "-") THEN Raised
            ELSE LET cut == IndexOf(spec, "-")
                     start_s == SubSeq(spec, 1, cut - 1)
                     end_s == SubSeq(spec, cut + 1, Len(spec))
                 IN IF start_s = <<>>
                    THEN IF PyInt(end_s).ok
                         THEN SuffixRange(PyInt(end_s).val, size)
                         ELSE None
                    ELSE IF ~PyInt(start_s).ok THEN None
                    ELSE IF end_s = <<>>
                         THEN CheckedRange(PyInt(start_s).val, size - 1, size)
                    ELSE IF ~PyInt(end_s).ok THEN None
                    ELSE CheckedRange(PyInt(start_s).val, PyInt(end_s).val, size)

----------------------------------------------------------------------------
(* The delivery endpoint: media() and iter_file_range of api.py             *)

\* requests the endpoint handles, one after the other
MaxReqs == 1
\* iter_file_range generators that are alive at the same time
MaxStreams == 3
\* bytes per chunk; api.py:71 uses 1024 * 1024, the model scales it down
ChunkSize == 2

Streams == 1..MaxStreams

\* no symbolic link: every path resolves to itself
NoLinks == [p \in Paths |-> p]
\* the link layouts tried: none, a link below directory 0 to the top-level
\* file, the top-level path a link to a file below directory 0
LinkChoices == {NoLinks,
                [NoLinks EXCEPT ![<<0, NumSub>>] = <<1>>],
                [NoLinks EXCEPT ![<<1>>] = <<0, 1>>]}

File(size) == [exists |-> TRUE, size |-> size, mtime |-> Written.mtime]

\* Path.resolve(): the symlink-resolved path; in non-strict mode a missing
\* entry resolves to itself and nothing is raised
Resolve(path) == links[path]
\* not path.exists() or not path.is_file(); both follow symbolic links
PathMissing_never(path) == FALSE
PathMissing(path) == ~fs[links[path]].exists
\* Path.parents
Parents(path) == {SubSeq(path, 1, n) : n \in 0..(Len(path) - 1)}
\* line 189 negated: resolved == allowed or allowed in resolved.parents
IsConfined_lexical(path, resolved, allowed) ==
    path = allowed \/ allowed \in Parents(path)
IsConfined(path, resolved, allowed) ==
    resolved = allowed \/ allowed \in Parents(resolved)

\* the files table after one completed run over the whole volume
MediaRow(i) ==
    [id |-> i, root |-> "Vol", rel_path |-> WalkList(<<>>)[i],
     abs_path |-> WalkList(<<>>)[i], size_bytes |-> Written.size,
     mtime |-> dt_from_epoch(Written.mtime), sha256 |-> "NULL",
     last_seen_run_id |-> 1]
MediaCatalog == {MediaRow(i) : i \in DOMAIN WalkList(<<>>)}
\* the ids a request may name: those of the catalog and one unknown id
FileIds == 1..(Len(WalkList(<<>>)) + 1)

\* the Range headers the whole handler is run with: none, a closed range, a
\* suffix, an unsatisfiable start, and a spec without '-'
MediaHeaders == {<<>>,
                 BytesEq \o <<"0", "-", "1">>,
                 BytesEq \o <<"-", "1">>,
                 BytesEq \o <<"9", "-">>,
                 BytesEq \o <<"2">>}

Absent == [kind |-> "absent", first |-> 0, last |-> 0, total |-> 0]
NoResp == [status |-> 0, accept_ranges |-> FALSE, content_length |-> 0,
           content_range |-> Absent, body |-> FALSE, first |-> 0, last |-> 0]

\* raise HTTPException(status_code=...), and the server's answer to an
\* exception that leaves media()
HttpError(status) == [NoResp EXCEPT !.status = status]
\* lines 198-206
Full200(size) ==
    [NoResp EXCEPT !.status = 200, !.accept_ranges = TRUE,
                   !.content_length = size, !.body = TRUE,
                   !.first = 0, !.last = size - 1]
\* line 212
Unsatisfiable416(size) ==
    [NoResp EXCEPT !.status = 416,
                   !.content_range = [Absent EXCEPT !.kind = "star", !.total = size]]
\* lines 214-226
Partial206(start, end, size) ==
    [NoResp EXCEPT !.status = 206, !.accept_ranges = TRUE,
                   !.content_range = [kind |-> "span", first |-> start,
                                      last |-> end, total |-> size],
                   !.content_length = end - start + 1, !.body = TRUE,
                   !.first = start, !.last = end]

IdleMedia == [pc |-> "idle", file_id |-> 0, abs_path |-> <<>>, resolved |-> <<>>,
              raised |-> "none", stream |-> 0, was_missing |-> FALSE, n |-> 0]

\* eof and shrunk are history: the file's size when the generator opened it,
\* and whether the file was truncated while the generator had it open
NoStream == [pc |-> "none", path |-> <<>>, start |-> 0, end |-> 0,
             remaining |-> 0, sent |-> <<>>, eof |-> 0, shrunk |-> FALSE]
\* calling the generator function runs none of its body
iter_file_range(path, start, end) ==
    [NoStream EXCEPT !.pc = "created", !.path = path, !.start = start, !.end = end]

FreeSlot == Min({s \in Streams : streams[s].pc = "none"})

InitMediaIdle ==
    /\ links = NoLinks
    /\ media = IdleMedia
    /\ streams = [s \in Streams |-> NoStream]
    /\ handles = {}

InitRangeIdle ==
    /\ range_header = <<>>
    /\ file_size = 0
    /\ byte_range = Unset
    /\ resp = NoResp

\* the scanner is not running and the catalog holds one completed run
InitServing ==
    /\ files = MediaCatalog
    /\ scan_runs = {[id |-> 1, root |-> "Vol", finished |-> TRUE,
                     files_seen |-> Len(WalkList(<<>>)),
                     files_changed |-> Len(WalkList(<<>>))]}
    /\ run_seq = 1
    /\ fsOps = 0
    /\ scan = [p \in Procs |-> IdleScan]
    /\ tx = [p \in Procs |-> EmptyTx]
    /\ hist = [p \in Procs |-> NoHist]
    /\ synced = {}

\* a request for an existing, servable file of some size with some Range
\* header, after path.stat() of line 192
InitRange ==
    /\ range_header \in Headers
    /\ file_size \in 0..MaxFileSize
    /\ byte_range = Unset
    /\ resp = NoResp
    /\ env \in Configs /\ env.scan_root = <<>>
    /\ links = NoLinks
    /\ fs = [p \in Paths |-> IF p = <<1>> THEN File(file_size) ELSE Written]
    /\ media = [IdleMedia EXCEPT !.pc = "range", !.file_id = 1, !.abs_path = <<1>>,
                                 !.resolved = <<1>>, !.n = 1]
    /\ streams = [s \in Streams |-> NoStream]
    /\ handles = {}

\* a request arrives: GET /media/{file_id} with or without a Range header
Request(file_id, header) ==
    /\ media.pc \in {"idle", "done"}
    /\ media.n < MaxReqs
    /\ \E s \in Streams : streams[s].pc = "none"
    /\ \A s \in Streams : streams[s].pc \notin {"created", "reading", "yielded"}
    /\ media' = [IdleMedia EXCEPT !.pc = "lookup", !.file_id = file_id,
                                  !.n = media.n + 1]
    /\ range_header' = header
    /\ file_size' = 0
    /\ byte_range' = Unset
    /\ resp' = NoResp
    /\ UNCHANGED <<links, streams, handles>>

\* lines 166-172: SELECT abs_path FROM files WHERE id = %s
Lookup ==
    /\ media.pc = "lookup"
    /\ LET rows == {r \in files : r.id = media.file_id}
           abs_path == (CHOOSE r \in rows : TRUE).abs_path
       IN IF rows = {}
          THEN /\ resp' = HttpError(404)
               /\ media' = [media EXCEPT !.pc = "done"]
          ELSE /\ resp' = resp
               /\ media' = [media EXCEPT !.pc = "exists", !.abs_path = abs_path,
                                         !.was_missing = ~fs[links[abs_path]].exists]
    /\ UNCHANGED <<range_header, file_size, byte_range, links, streams, handles>>

\* line 177, first operand: path.exists()
CheckExists ==
    /\ media.pc = "exists"
    /\ IF PathMissing(media.abs_path)
       THEN /\ resp' = HttpError(404)
            /\ media' = [media EXCEPT !.pc = "done"]
       ELSE /\ resp' = resp
            /\ media' = [media EXCEPT !.pc = "is_file"]
    /\ UNCHANGED <<range_header, file_size, byte_range, links, streams, handles>>

\* line 177, second operand: path.is_file(), another stat of the path
CheckIsFile ==
    /\ media.pc = "is_file"
    /\ IF PathMissing(media.abs_path)
       THEN /\ resp' = HttpError(404)
            /\ media' = [media EXCEPT !.pc = "done"]
       ELSE /\ resp' = resp
            /\ media' = [media EXCEPT !.pc = "confine"]
    /\ UNCHANGED <<range_header, file_size, byte_range, links, streams, handles>>

\* lines 181-190: SCAN_ROOT is set (scan.py reads it from the same .env); the
\* scan roots of the model are directories that are no links
Confine ==
    /\ media.pc = "confine"
    /\ LET allowed == env.scan_root
           resolved == Resolve(media.abs_path)
       IN IF ~IsConfined(media.abs_path, resolved, allowed)
          THEN /\ resp' = HttpError(403)
               /\ media' = [media EXCEPT !.pc = "done", !.resolved = resolved]
          ELSE /\ resp' = resp
               /\ media' = [media EXCEPT !.pc = "stat", !.resolved = resolved]
    /\ UNCHANGED <<range_header, file_size, byte_range, links, streams, handles>>

\* line 192: path.stat().st_size; the FileNotFoundError of a vanished file is
\* caught nowhere and the server answers 500
Stat ==
    /\ media.pc = "stat"
    /\ IF ~fs[links[media.abs_path]].exists
       THEN /\ resp' = HttpError(500)
            /\ media' = [media EXCEPT !.pc = "done", !.raised = "FileNotFoundError"]
            /\ file_size' = file_size
       ELSE /\ resp' = resp
            /\ media' = [media EXCEPT !.pc = "range"]
            /\ file_size' = fs[links[media.abs_path]].size
    /\ UNCHANGED <<range_header, byte_range, links, streams, handles>>

\* lines 197-206: no Range header, the whole file
ServeFull ==
    /\ media.pc = "range"
    /\ resp = NoResp
    /\ range_header = <<>>
    /\ resp' = Full200(file_size)
    /\ streams' = [streams EXCEPT ![FreeSlot] =
                      iter_file_range(media.abs_path, 0, file_size - 1)]
    /\ media' = [media EXCEPT !.pc = "done", !.stream = FreeSlot]
    /\ UNCHANGED <<range_header, file_size, byte_range, links, handles>>

\* line 209
ParseRange ==
    /\ media.pc = "range"
    /\ resp = NoResp
    /\ byte_range = Unset
    /\ range_header # <<>>
    /\ byte_range' = parse_range(range_header, file_size)
    /\ UNCHANGED <<range_header, file_size, resp, links, media, streams, handles>>

\* the ValueError of line 43 leaves media(); the server answers 500
Respond500 ==
    /\ media.pc = "range"
    /\ resp = NoResp
    /\ byte_range.kind = "raise"
    /\ resp' = HttpError(500)
    /\ media' = [media EXCEPT !.pc = "done", !.raised = "ValueError"]
    /\ UNCHANGED <<range_header, file_size, byte_range, links, streams, handles>>

\* lines 210-212
Respond416 ==
    /\ media.pc = "range"
    /\ resp = NoResp
    /\ byte_range.kind = "None"
    /\ resp' = Unsatisfiable416(file_size)
    /\ media' = [media EXCEPT !.pc = "done"]
    /\ UNCHANGED <<range_header, file_size, byte_range, links, streams, handles>>

\* lines 214-226
Respond206 ==
    /\ media.pc = "range"
    /\ resp = NoResp
    /\ byte_range.kind = "range"
    /\ resp' = Partial206(byte_range.start, byte_range.end, file_size)
    /\ streams' = [streams EXCEPT ![FreeSlot] =
                      iter_file_range(media.abs_path, byte_range.start,
                                      byte_range.end)]
    /\ media' = [media EXCEPT !.pc = "done", !.stream = FreeSlot]
    /\ UNCHANGED <<range_header, file_size, byte_range, links, handles>>

\* the handle the generator s holds, and the descriptor open() hands out: the
\* lowest one that is free
HandleOf(s) == CHOOSE h \in handles : h.owner = s
NewFd == Min((1..(Cardinality(handles) + 1)) \ {h.fd : h \in handles})

\* leaving the with block of line 73, on whatever path: the handle is closed
ExitWith_leak(hs, s) == hs
ExitWith(hs, s) == {h \in hs : h.owner # s}

\* line 77: min(chunk_size, remaining)
ReadSize_whole(remaining) == ChunkSize
ReadSize(remaining) == IF remaining < ChunkSize THEN remaining ELSE ChunkSize

\* lines 73-75, at the first next(): open, seek(start), remaining. The status
\* line and the headers are on the wire by then: a failing open breaks the
\* response.
Open(s) ==
    /\ streams[s].pc = "created"
    /\ LET st == streams[s]
           target == links[st.path]
       IN IF ~fs[target].exists
          THEN /\ streams' = [streams EXCEPT ![s].pc = "broken"]
               /\ handles' = handles
          ELSE /\ handles' = handles \cup
                      {[fd |-> NewFd, owner |-> s, inode |-> target,
                        pos |-> st.start, size |-> fs[target].size]}
               /\ streams' = [streams EXCEPT ![s].pc = "reading",
                                 ![s].remaining = st.end - st.start + 1,
                                 ![s].eof = fs[target].size]
    /\ UNCHANGED <<scanVars, rangeVars, links, media>>

\* lines 76-81, at a next(): the loop test, f.read, break on an empty chunk,
\* yield
Read(s) ==
    /\ streams[s].pc \in {"reading", "yielded"}
    /\ LET st == streams[s]
           h == HandleOf(s)
           avail == IF h.size > h.pos THEN h.size - h.pos ELSE 0
           n == ReadSize(st.remaining)
           got == IF n < avail THEN n ELSE avail
       IN IF st.remaining <= 0 \/ got = 0
          THEN /\ streams' = [streams EXCEPT ![s].pc = "done"]
               /\ handles' = ExitWith(handles, s)
          ELSE /\ streams' = [streams EXCEPT ![s].pc = "yielded",
                                 ![s].remaining = @ - got,
                                 ![s].sent = Append(@, [off |-> h.pos, len |-> got])]
               /\ handles' = (handles \ {h}) \cup {[h EXCEPT !.pos = @ + got]}
    /\ UNCHANGED <<scanVars, rangeVars, links, media>>

\* line 77: f.read raises OSError; the exception leaves the with block
ReadError(s) ==
    /\ streams[s].pc \in {"reading", "yielded"}
    /\ streams[s].remaining > 0
    /\ streams' = [streams EXCEPT ![s].pc = "error"]
    /\ handles' = ExitWith(handles, s)
    /\ UNCHANGED <<scanVars, rangeVars, links, media>>

\* the client disconnects and the consumer closes the generator: GeneratorExit
\* is raised at the yield of line 81, or the body never runs
Close(s) ==
    /\ streams[s].pc \in {"created", "yielded"}
    /\ streams' = [streams EXCEPT ![s].pc = "closed"]
    /\ handles' = IF streams[s].pc = "yielded" THEN ExitWith(handles, s) ELSE handles
    /\ UNCHANGED <<scanVars, rangeVars, links, media>>

\* somebody removes a directory entry: a symbolic link, or a file (whose data
\* stays readable through the handles that are open on it)
Unlink(path) ==
    /\ fsOps < MaxFsOps
    /\ links[path] # path \/ fs[path].exists
    /\ IF links[path] # path
       THEN /\ links' = [links EXCEPT ![path] = path]
            /\ fs' = fs
       ELSE /\ fs' = [fs EXCEPT ![path] = Gone]
            /\ links' = links
    /\ fsOps' = fsOps + 1
    /\ UNCHANGED <<env, files, scan_runs, run_seq, scan, tx, hist, synced,
                   rangeVars, media, streams, handles>>

\* somebody truncates a file to size bytes
Truncate(path, size) ==
    /\ fsOps < MaxFsOps
    /\ fs[path].exists
    /\ size < fs[path].size
    /\ fs' = [fs EXCEPT ![path].size = size]
    /\ handles' = {IF h.inode = path THEN [h EXCEPT !.size = size] ELSE h :
                      h \in handles}
    /\ streams' = [s \in Streams |->
                     IF \E h \in handles : h.owner = s /\ h.inode = path
                     THEN [streams[s] EXCEPT !.shrunk = TRUE] ELSE streams[s]]
    /\ fsOps' = fsOps + 1
    /\ UNCHANGED <<env, files, scan_runs, run_seq, scan, tx, hist, synced,
                   rangeVars, links, media>>

Init == InitScan /\ InitRangeIdle /\ InitMediaIdle

\* the steps of the invocations in P
Steps(P) ==
    \/ \E p \in P : InsertRun(p) /\ UNCHANGED apiVars
    \/ \E p \in P : CommitRun(p) /\ UNCHANGED apiVars
    \/ \E p \in P : NextFile(p) /\ UNCHANGED apiVars
    \/ \E p \in P : SelectExisting(p) /\ UNCHANGED apiVars
    \/ \E p \in P : Upsert(p) /\ UNCHANGED apiVars
    \/ \E p \in P : BatchCheck(p) /\ UNCHANGED apiVars
    \/ \E p \in P : FinalCommit(p) /\ UNCHANGED apiVars
    \/ \E p \in P : FinishRun(p) /\ UNCHANGED apiVars
    \/ \E p \in P : CommitFinish(p) /\ UNCHANGED apiVars
    \/ \E p \in P : ReturnOk(p) /\ UNCHANGED apiVars
    \/ \E p \in P : Interrupt(p) /\ UNCHANGED apiVars
    \/ \E p \in P : ExceptCommit(p) /\ UNCHANGED apiVars
    \/ \E p \in P : Kill(p) /\ UNCHANGED apiVars
    \/ \E p \in P : DbError(p) /\ UNCHANGED apiVars

VolumeChanges ==
    \E path \in Paths, st \in FileStates : FsChange(path, st) /\ UNCHANGED apiVars

\* one invocation at a time
Next == Steps({1}) \/ VolumeChanges
\* two invocations that may overlap on one unchanging tree
NextOverlap == Steps(Procs)

\* one invocation at a time over a catalog whose hashes another writer fills in
Hasher == \E path \in Paths : HashFile(path) /\ UNCHANGED apiVars
NextHash == Steps({1}) \/ VolumeChanges \/ Hasher

Spec == Init /\ [][Next]_vars
SpecOverlap == Init /\ [][NextOverlap]_vars
SpecHash == Init /\ [][NextHash]_vars

\* one request to media() with a Range header
InitRequest == InitRange /\ InitServing
NextRequest ==
    \/ ServeFull /\ UNCHANGED scanVars
    \/ ParseRange /\ UNCHANGED scanVars
    \/ Respond500 /\ UNCHANGED scanVars
    \/ Respond416 /\ UNCHANGED scanVars
    \/ Respond206 /\ UNCHANGED scanVars
SpecRange == InitRequest /\ [][NextRequest]_vars

\* the endpoint serving requests one after the other, each response's stream
\* included, while entries of the volume are removed
InitMedia ==
    /\ InitServing
    /\ InitRangeIdle
    /\ env \in Configs
    /\ links \in LinkChoices
    /\ fs \in [Paths -> {Gone, Written}]
    /\ \A p \in Paths : links[p] # p => fs[p] = Gone
    /\ media = IdleMedia
    /\ streams = [s \in Streams |-> NoStream]
    /\ handles = {}
Handler ==
    \/ \E id \in FileIds, header \in MediaHeaders :
           Request(id, header) /\ UNCHANGED scanVars
    \/ Lookup /\ UNCHANGED scanVars
    \/ CheckExists /\ UNCHANGED scanVars
    \/ CheckIsFile /\ UNCHANGED scanVars
    \/ Confine /\ UNCHANGED scanVars
    \/ Stat /\ UNCHANGED scanVars
    \/ ServeFull /\ UNCHANGED scanVars
    \/ ParseRange /\ UNCHANGED scanVars
    \/ Respond500 /\ UNCHANGED scanVars
    \/ Respond416 /\ UNCHANGED scanVars
    \/ Respond206 /\ UNCHANGED scanVars
Streaming ==
    \/ \E s \in Streams : Open(s)
    \/ \E s \in Streams : Read(s)
    \/ \E s \in Streams : ReadError(s)
    \/ \E s \in Streams : Close(s)
Removals == \E path \in Paths : Unlink(path)
NextMedia == Handler \/ Streaming \/ Removals
SpecMedia == InitMedia /\ [][NextMedia]_vars

\* iter_file_range called on one file with any start and end, while the file
\* is truncated or removed; the consumer drives the generator on until it ends
InitStream ==
    /\ InitServing
    /\ InitRangeIdle
    /\ env \in Configs /\ env.scan_root = <<>>
    /\ links = NoLinks
    /\ fs \in {[p \in Paths |-> IF p = <<1>> THEN File(n) ELSE Written] :
                  n \in 0..MaxFileSize}
    /\ media = IdleMedia
    /\ streams \in {[s \in Streams |->
                       IF s = 1 THEN iter_file_range(<<1>>, a, b) ELSE NoStream] :
                    a \in 0..MaxFileSize, b \in (-1)..MaxFileSize}
    /\ handles = {}
\* the entries some generator was created for
Streamed == {streams[s].path : s \in Streams} \cap Paths
StreamedRemovals == \E path \in Streamed : Unlink(path)
StreamedTruncations ==
    \E path \in Streamed, size \in 0..MaxFileSize : Truncate(path, size)
NextStream == Streaming \/ StreamedRemovals \/ StreamedTruncations
Pull(s) == Open(s) \/ Read(s)
SpecStream == InitStream /\ [][NextStream]_vars /\ \A s \in Streams : WF_vars(Pull(s))

\* as many responses as there are slots stream the same file at once
InitConcurrent ==
    /\ InitServing
    /\ InitRangeIdle
    /\ env \in Configs /\ env.scan_root = <<>>
    /\ links = NoLinks
    /\ fs = [p \in Paths |-> IF p = <<1>> THEN File(MaxFileSize) ELSE Written]
    /\ media = IdleMedia
    /\ streams = [s \in Streams |-> iter_file_range(<<1>>, 0, MaxFileSize - 1)]
    /\ handles = {}
NextConcurrent == Streaming \/ StreamedRemovals
SpecConcurrent == InitConcurrent /\ [][NextConcurrent]_vars

----------------------------------------------------------------------------
(* Properties of the synchronizer *)

RowsOf(path) == {r \in files : r.abs_path = path}
RunRows(id) == {r \in scan_runs : r.id = id}
Elems(seq) == {seq[i] : i \in DOMAIN seq}
\* paths whose durable row was last written by run id
PathsOfRun(id) == {r.abs_path : r \in {x \in files : x.last_seen_run_id = id}}
ClassesOf(p) == {hist[p].walked[i].class : i \in DOMAIN hist[p].walked}

\* C1: a run that completes over a tree which an earlier completed run already
\* mirrored, with no change of the volume and no other writer since that
\* run started, records files_changed = 0, and every path it walked has
\* exactly one row in files.
C1_Idempotent ==
    \A p \in Procs :
        (scan[p].pc = "print" /\ hist[p].repeat) =>
            /\ scan[p].files_changed = 0
            /\ \E r \in RunRows(scan[p].run_id) : r.finished /\ r.files_changed = 0
            /\ \A i \in DOMAIN hist[p].walked :
                   Cardinality(RowsOf(hist[p].walked[i].item.abs_path)) = 1

\* a second run over the unchanged tree has finished after walking its files
C1_SecondRunDone ==
    \E p \in Procs : /\ scan[p].pc = "print"
                     /\ hist[p].repeat
                     /\ scan[p].run_id >= 2
                     /\ Len(hist[p].walked) >= 2
                     /\ "Unchanged" \in ClassesOf(p)

\* C2: no two rows of files share an abs_path, in every catalog state that
\* completed, killed, failed, interrupted and overlapping runs can produce.
C2_UniqueAbsPath ==
    \A r1 \in files : \A r2 \in files : r1.abs_path = r2.abs_path => r1 = r2

\* two overlapping runs have both upserted the same path and a row of it is durable
C2_OverlapOnPath ==
    /\ Active(1) /\ Active(2)
    /\ \E path \in Elems(hist[1].executed) \cap Elems(hist[2].executed) :
           RowsOf(path) # {}

\* C3: once a run that no other run overlapped has committed its last batch,
\* every path it walked has exactly one row, holding the size, mtime, root and
\* rel_path of that walk and the run's id as last_seen_run_id, whatever rows
\* earlier (also killed) runs left and however the path was classified.
C3_Reconverged ==
    \A p \in Procs :
        (scan[p].pc \in {"update_run", "finish_commit", "print"} /\ hist[p].solo) =>
            \A i \in DOMAIN hist[p].walked :
                LET it == hist[p].walked[i].item
                IN /\ Cardinality(RowsOf(it.abs_path)) = 1
                   /\ \A r \in RowsOf(it.abs_path) :
                          /\ r.size_bytes = it.size
                          /\ r.mtime = dt_from_epoch(it.mtime_epoch)
                          /\ r.root = scan[p].cfg.root_name
                          /\ r.rel_path = it.rel_path
                          /\ r.last_seen_run_id = scan[p].run_id

\* a run completes after an earlier run died with a batch committed and a
\* file still missing, and meets a new, a changed and an unchanged file
C3_AfterKilledRun ==
    \E p \in Procs :
        /\ scan[p].pc = "print"
        /\ \E r \in scan_runs : r.id < scan[p].run_id /\ ~r.finished
        /\ ClassesOf(p) = {"New", "Changed", "Unchanged"}

\* C4: the upserts of a run that are durable are a prefix of the upserts it
\* executed, in walk order, and are the rows the run has in files; what a kill
\* loses is the rest: never more than BatchSize upserts, and fewer than
\* BatchSize whenever the run is between the batch check of one file and the
\* upsert of the next.
C4_BoundedLoss ==
    \A p \in Procs :
        LET e == hist[p].executed
            d == hist[p].durable
        IN /\ Len(d) <= Len(e)
           /\ d = SubSeq(e, 1, Len(d))
           /\ PathsOfRun(scan[p].run_id) = Elems(d)
           /\ Active(p) => Len(tx[p].files) = Len(e) - Len(d)
           /\ Len(e) - Len(d) <= BatchSize
           /\ scan[p].pc \in {"walk", "select", "upsert"} => Len(e) - Len(d) < BatchSize

\* a killed run had committed a full batch and lost an upsert after it
C4_KilledMidBatch ==
    \E p \in Procs :
        /\ scan[p].pc = "exited" /\ scan[p].status = 137
        /\ Len(hist[p].durable) >= BatchSize
        /\ Len(hist[p].executed) > Len(hist[p].durable)

\* C5 (as claimed): a process that an interrupt ended with status 130 leaves
\* its scan_runs row with finished_at null.
C5_InterruptedStaysUnfinished ==
    \A p \in Procs :
        (scan[p].pc = "exited" /\ scan[p].status = 130) =>
            \A r \in RunRows(scan[p].run_id) : ~r.finished

\* C6 (as claimed): a run ended by a kill or a database error after its
\* ScanRun row was committed has finished_at null, no uncommitted work left,
\* and in files exactly the rows of its last commit.
C6_AbnormalEndAsClaimed ==
    \A p \in Procs :
        (scan[p].pc = "exited" /\ scan[p].status \in {1, 137}) =>
            /\ \A r \in RunRows(scan[p].run_id) : ~r.finished
            /\ tx[p] = EmptyTx
            /\ PathsOfRun(scan[p].run_id) = Elems(hist[p].durable)

\* C6 (amended): the same for a run ended by a kill or a database error before
\* the commit of line 146 has completed.
C6_AbnormalEndUnfinished ==
    \A p \in Procs :
        (scan[p].pc = "exited" /\ scan[p].status \in {1, 137}
             /\ ~hist[p].finalized) =>
            /\ \A r \in RunRows(scan[p].run_id) : ~r.finished
            /\ tx[p] = EmptyTx
            /\ PathsOfRun(scan[p].run_id) = Elems(hist[p].durable)

\* a database error ended a run whose row was committed, and discarded upserts
C6_FailedWithPending ==
    \E p \in Procs :
        /\ scan[p].pc = "exited" /\ scan[p].status = 1
        /\ RunRows(scan[p].run_id) # {}
        /\ Len(hist[p].executed) > Len(hist[p].durable)

\* C7: when an interrupt ends a run with status 130, every upsert the run had
\* executed is durable: each executed path has its row in files, written by
\* this run.
C7_InterruptKeepsProgress ==
    \A p \in Procs :
        (scan[p].pc = "exited" /\ scan[p].status = 130) =>
            /\ hist[p].durable = hist[p].executed
            /\ Elems(hist[p].executed) \subseteq PathsOfRun(scan[p].run_id)

\* the handler's commit made upserts durable that no batch commit had covered
C7_HandlerRescued ==
    \E p \in Procs :
        /\ scan[p].pc = "exited" /\ scan[p].status = 130
        /\ hist[p].rescued > 0
        /\ Len(hist[p].executed) > hist[p].rescued

WalkedPaths(p) == {hist[p].walked[i].item.abs_path : i \in DOMAIN hist[p].walked}

\* C16: the ScanRun row is committed before the run's first upsert; while the
\* finalizing UPDATE is pending or committed the run has no uncommitted upsert
\* and every file it walked is upserted and durable; every row of files names
\* in last_seen_run_id a committed scan_runs row; every path a finished run
\* upserted has its row in files.
C16_LifecycleOrder ==
    /\ \A r \in files : RunRows(r.last_seen_run_id) # {}
    /\ \A p \in Procs :
        /\ (hist[p].executed # <<>> \/ tx[p].files # <<>>) =>
               RunRows(scan[p].run_id) # {}
        /\ (\/ scan[p].pc \in {"finish_commit", "print"}
            \/ \E i \in DOMAIN tx[p].runs : tx[p].runs[i].finished
            \/ \E r \in RunRows(scan[p].run_id) : r.finished) =>
               /\ tx[p].files = <<>>
               /\ hist[p].durable = hist[p].executed
               /\ Active(p) => WalkedPaths(p) = Elems(hist[p].executed)
               /\ Active(p) => Len(hist[p].walked) = Len(hist[p].executed)
               /\ \A path \in Elems(hist[p].executed) : RowsOf(path) # {}
               /\ ~OthersActive(p) /\ hist[p].solo =>
                      Elems(hist[p].executed) \subseteq PathsOfRun(scan[p].run_id)

\* a run is finished in scan_runs after more files than one batch holds
C16_FinishedAfterBatches ==
    \E p \in Procs :
        /\ \E r \in RunRows(scan[p].run_id) : r.finished
        /\ Len(hist[p].executed) > BatchSize
        /\ Len(hist[p].walked) > BatchSize

\* number of walked files that had no row, or a row with another size or
\* another mtime than the walk observed, when they were looked up
CountedChanged(p) ==
    Cardinality({i \in DOMAIN hist[p].walked :
                    LET w == hist[p].walked[i]
                    IN \/ ~w.row.found
                       \/ w.row.size_bytes # w.item.size
                       \/ w.row.mtime # dt_from_epoch(w.item.mtime_epoch)})

\* C17: a run that has finished normally has recorded files_seen = the number
\* of files the walk yielded and files_changed = the number of them that were
\* New or Changed when looked up; files_changed never exceeds files_seen.
C17_ChangeCounting ==
    /\ \A r \in scan_runs : r.files_changed <= r.files_seen
    /\ \A p \in Procs :
        /\ scan[p].files_changed <= scan[p].files_seen
        /\ scan[p].pc = "print" =>
               \E r \in RunRows(scan[p].run_id) :
                   /\ r.finished
                   /\ r.files_seen = Len(hist[p].walked)
                   /\ r.files_changed = CountedChanged(p)

\* a finished run counted some of its files and left an unchanged one uncounted
C17_MixedCounts ==
    \E p \in Procs :
        /\ scan[p].pc = "print"
        /\ {"Changed", "Unchanged"} \subseteq ClassesOf(p)
        /\ \E r \in RunRows(scan[p].run_id) :
               r.files_changed >= 1 /\ r.files_changed < r.files_seen

\* C18: no step removes a row of files, and no step changes any field of a row
\* whose abs_path no running invocation has walked; so the row of a path that
\* has vanished from the volume stays as it is.
C18_NoTombstoning ==
    [][\A r \in files :
          /\ \E r2 \in files' : r2.id = r.id /\ r2.abs_path = r.abs_path
          /\ (\A p \in Procs : r.abs_path \notin WalkedPaths(p)) => r \in files']_vars

\* a later run has finished while the row of a vanished path still names the
\* earlier run that saw it
C18_StaleRowKept ==
    \E p \in Procs :
        /\ scan[p].pc = "print"
        /\ Len(hist[p].walked) >= 1
        /\ \E r \in files : /\ ~fs[r.abs_path].exists
                            /\ r.last_seen_run_id < scan[p].run_id

\* C20 (as claimed): once a run has upserted a file it classified Changed, the
\* file's row holds the observed size and mtime and the run's id, and the
\* content hash stored for the previous content is gone: when the size changed,
\* sha256 is NULL or the digest of the new content.
C20_HashOverwritten ==
    \A p \in Procs : \A i \in DOMAIN hist[p].walked :
        LET w == hist[p].walked[i]
        IN (w.class = "Changed" /\ i <= Len(hist[p].executed)) =>
               \A r \in {x \in Visible(p) : x.abs_path = w.item.abs_path} :
                   /\ r.size_bytes = w.item.size
                   /\ r.mtime = dt_from_epoch(w.item.mtime_epoch)
                   /\ r.last_seen_run_id = scan[p].run_id
                   /\ w.row.size_bytes # w.item.size =>
                          r.sha256 \in {"NULL", Digest([size |-> w.item.size])}

----------------------------------------------------------------------------
(* Properties of parse_range *)

RECURSIVE Dec(_)
\* the decimal numeral of n
Dec(n) == IF n < 10 THEN <<Digits[n + 1]>>
          ELSE Dec(n \div 10) \o <<Digits[(n % 10) + 1]>>

\* the numbers whose numerals the Range headers of the model can spell
Nums == {n \in 0..22 : \A i \in DOMAIN Dec(n) : Dec(n)[i] \in Alphabet}

\* C8: for a file of size >= 1, bytes=a-b gives (a, min(b, size-1)) when
\* a <= b and a < size, bytes=a- gives (a, size-1) when a < size, bytes=-n gives
\* (max(size-n, 0), size-1) when n > 0; these forms with a >= size, b < a or
\* n <= 0, every header with a comma and every header not starting with
\* bytes= give None.
C8_ReferenceRules ==
    (byte_range # Unset /\ file_size >= 1) =>
        /\ \A a \in Nums : \A b \in Nums :
               range_header = BytesEq \o Dec(a) \o <<"-">> \o Dec(b) =>
                   byte_range = IF a <= b /\ a < file_size
                                THEN Interval(a, Min({b, file_size - 1}))
                                ELSE None
        /\ \A a \in Nums :
               range_header = BytesEq \o Dec(a) \o <<"-">> =>
                   byte_range = IF a < file_size
                                THEN Interval(a, file_size - 1) ELSE None
        /\ \A n \in Nums :
               range_header = BytesEq \o <<"-">> \o Dec(n) =>
                   byte_range = IF n > 0
                                THEN Interval(Max({file_size - n, 0}), file_size - 1)
                                ELSE None
        /\ Contains(range_header, ",") => byte_range = None
        /\ ~StartsWith(range_header, BytesEq) => byte_range = None

\* bytes=1-12 on a file of 3 bytes was parsed and clamped to (1, 2)
C8_ClampedRange ==
    /\ range_header = BytesEq \o <<"1", "-", "1", "2">>
    /\ file_size = 3
    /\ byte_range = Interval(1, 2)

\* C9 (as claimed): parse_range never raises and the endpoint never answers
\* with an unhandled error; a spec without a '-' after bytes= gives None and 416.
C9_MalformedRejected ==
    /\ byte_range # Raised
    /\ resp.status # 500
    /\ (byte_range # Unset /\ StartsWith(range_header, BytesEq)
          /\ ~Contains(range_header, "-") /\ ~Contains(range_header, ",")) =>
           /\ byte_range = None
           /\ resp.status \in {0, 416}

\* C10 (as claimed): every interval parse_range returns, for every file size
\* >= 0, satisfies 0 <= start <= end <= size-1, and every 206 response has
\* Content-Length >= 1 and a Content-Range inside the resource.
C10_ValidInterval ==
    /\ byte_range.kind = "range" =>
           /\ 0 <= byte_range.start
           /\ byte_range.start <= byte_range.end
           /\ byte_range.end <= file_size - 1
    /\ resp.status = 206 =>
           /\ resp.content_length >= 1
           /\ 0 <= resp.first /\ resp.last <= file_size - 1

----------------------------------------------------------------------------
(* Properties of the delivery endpoint *)

\* C11 (as claimed): for a file that is on disk and passes confinement, with
\* size S, the response is 200 with Accept-Ranges: bytes and Content-Length S
\* when there is no Range header, 206 with Content-Range bytes start-end/S and
\* Content-Length end-start+1 when the header parses to (start, end), 416 with
\* Content-Range bytes */S and no body for every other header, and no other
\* status.
C11_StatusMapping ==
    resp.status # 0 =>
        /\ resp.status \in {200, 206, 416}
        /\ range_header = <<>> =>
               /\ resp.status = 200
               /\ resp.accept_ranges
               /\ resp.content_length = file_size
               /\ resp.content_range = Absent
        /\ (range_header # <<>> /\ byte_range.kind = "range") =>
               /\ resp.status = 206
               /\ resp.content_range = [kind |-> "span", first |-> byte_range.start,
                                        last |-> byte_range.end, total |-> file_size]
               /\ resp.content_length = byte_range.end - byte_range.start + 1
        /\ (range_header # <<>> /\ byte_range.kind # "range") =>
               /\ resp.status = 416
               /\ resp.content_range = [Absent EXCEPT !.kind = "star",
                                                      !.total = file_size]
               /\ ~resp.body

\* path is root or lies below it
Under(path, root) ==
    Len(path) >= Len(root) /\ SubSeq(path, 1, Len(root)) = root
\* the catalog has a row for the request's id
RowFound == \E r \in files : r.id = media.file_id
\* the request's file is on disk now; entries only ever vanish, so it has been
\* there, resolving as it does now, all through the request
OnDisk == media.abs_path \in Paths /\ fs[links[media.abs_path]].exists

\* C12: a 200 or 206 is produced, and a file is opened for streaming, only
\* when the symlink-resolved path of the file is the allowed root or lies
\* below it; a request for a catalogued file that is on disk and resolves
\* outside the root, directly or through a link, is answered 403.
C12_Confinement ==
    /\ resp.status \in {200, 206} => Under(media.resolved, env.scan_root)
    /\ \A h \in handles : Under(h.inode, env.scan_root)
    /\ media.stream # 0 => Under(media.resolved, env.scan_root)
    /\ (media.pc = "done" /\ RowFound /\ OnDisk
          /\ ~Under(links[media.abs_path], env.scan_root)) => resp.status = 403

\* a link below the allowed root that leads to a file outside it was refused
C12_LinkRefused ==
    /\ resp.status = 403
    /\ links[media.abs_path] # media.abs_path
    /\ Under(media.abs_path, env.scan_root)
    /\ ~Under(links[media.abs_path], env.scan_root)
    /\ fs[links[media.abs_path]].exists

\* C13 (as claimed): a request for a row whose file has been removed is
\* answered 404: the FileNotFoundError of a vanished file never leaves the
\* handler, and no response that has started streaming breaks on it, whenever
\* the removal happens.
C13_DeletedGives404 ==
    /\ media.raised # "FileNotFoundError"
    /\ \A s \in Streams : streams[s].pc # "broken"
    /\ (media.pc = "done" /\ RowFound /\ media.was_missing) => resp.status = 404

\* C14: every open handle belongs to exactly one generator that is inside its
\* with block, no two generators share a handle or a descriptor, a generator
\* that has ended (exhausted, failed read, closed by its consumer) holds none,
\* and when all have ended no handle is open.
C14_NoHandleLeak ==
    /\ \A h1 \in handles : \A h2 \in handles :
           (h1.fd = h2.fd \/ h1.owner = h2.owner) => h1 = h2
    /\ \A s \in Streams :
           (\E h \in handles : h.owner = s) <=> streams[s].pc \in {"reading", "yielded"}
    /\ (\A s \in Streams : streams[s].pc \notin {"created", "reading", "yielded"}) =>
           Cardinality(handles) = 0

\* all generators have ended, one exhausted, one closed by its consumer after
\* a chunk, one on a failed read, and no handle is open
C14_AllEndedEveryWay ==
    /\ \E s \in Streams : streams[s].pc = "done" /\ Len(streams[s].sent) >= 2
    /\ \E s \in Streams : streams[s].pc = "closed" /\ Len(streams[s].sent) >= 1
    /\ \E s \in Streams : streams[s].pc = "error"
    /\ \A s \in Streams : streams[s].pc \in {"done", "closed", "error"}
    /\ handles = {}

\* C15: an unknown id is answered 404; a row whose file is missing when the
\* request arrives is answered 404, also when its path lies outside the
\* allowed root; a file that is on disk outside the allowed root is answered
\* 403 whatever the Range header, before the header is parsed, without a
\* generator being created for it and with no file open (a request starts
\* when the generators of earlier responses have ended).
C15_CheckOrder ==
    media.pc = "done" =>
        /\ ~RowFound => resp.status = 404
        /\ (RowFound /\ media.was_missing) => resp.status = 404
        /\ (RowFound /\ OnDisk /\ ~Under(links[media.abs_path], env.scan_root)) =>
               /\ resp.status = 403
               /\ byte_range = Unset
               /\ media.stream = 0
               /\ \A s \in Streams :
                      streams[s].pc \notin {"created", "reading", "yielded"}
               /\ handles = {}

\* a file outside the allowed root was refused although the request's Range
\* header is one that cannot be parsed
C15_ForbiddenBeforeRange ==
    /\ resp.status = 403
    /\ range_header = BytesEq \o <<"2">>
    /\ fs[links[media.abs_path]].exists

RECURSIVE SumLen(_)
SumLen(chunks) == IF chunks = <<>> THEN 0 ELSE Head(chunks).len + SumLen(Tail(chunks))

Requested(s) == Max({streams[s].end - streams[s].start + 1, 0})
StreamEnded(s) == streams[s].pc \in {"none", "done", "closed", "error", "broken"}

\* the chunks generator s has yielded so far are non-empty, at most ChunkSize
\* long, contiguous from start, and no longer in total than what was asked
\* for; an exhausted generator has yielded all that the file held of it
ChunksOk(s) ==
    LET st == streams[s]
    IN /\ \A i \in DOMAIN st.sent :
              /\ st.sent[i].len \in 1..ChunkSize
              /\ st.sent[i].off = st.start + SumLen(SubSeq(st.sent, 1, i - 1))
       /\ SumLen(st.sent) <= Requested(s)
       /\ st.end < st.start => st.sent = <<>>
       /\ (st.pc = "done" /\ ~st.shrunk) =>
              SumLen(st.sent) = Min({Requested(s), Max({st.eof - st.start, 0})})
       /\ (st.pc = "done" /\ SumLen(st.sent) < Requested(s)) =>
              st.shrunk \/ st.start + SumLen(st.sent) >= st.eof

\* C19: iter_file_range yields non-empty chunks of at most ChunkSize bytes,
\* contiguous and in file order from start, in total min(end-start+1, bytes
\* from start to the end of the file); nothing when end < start; it stops
\* without error when the file ends early; and it always terminates.
C19_ChunkedStreaming ==
    /\ [](\A s \in Streams : ChunksOk(s))
    /\ <>(\A s \in Streams : StreamEnded(s))

\* a generator is exhausted after a full chunk and a shorter last one
C19_ShortLastChunk ==
    \E s \in Streams :
        /\ streams[s].pc = "done"
        /\ Len(streams[s].sent) = 2
        /\ streams[s].sent[1].len = ChunkSize
        /\ streams[s].sent[2].len < ChunkSize

====
